---- MODULE Spec2Model ----
\* Verification model of fabric-network/lib/impl/event/commiteventlistener.js:
\* CommitEventListener instances registering transaction watches on shared
\* ChannelEventHub instances handed out by the EventHubManager.
EXTENDS Integers, Sequences, FiniteSets, TLC

\* ---------------------------------------------------------------- bounds
MaxHubs == 3                \* event hub instances the manager can hand out
MaxBlock == 2               \* the block number digit a hub delivers

Listeners == {"L1", "L2"}   \* CommitEventListener instances
Hubs == 1..MaxHubs
NoHub == 0                  \* this.eventHub is undefined
NoListener == "none"
TxIds == {"tx1", "tx2"}

\* hub._peer: the hubs are spread over two peers
peerOf(h) == IF h <= 2 THEN "peerA" ELSE "peerB"

VARIABLES
    transactionId,  \* this.transactionId
    options,        \* this.options
    eventHub,       \* this.eventHub
    registration,   \* this._registration
    registered,     \* this._registered
    pc,             \* position of the listener's register() call
    run,            \* what the register() call in progress has done so far
    delivered,      \* a success callback happened in the registration cycle under way
    table,          \* hub._transactionRegistrations
    last            \* the step just taken and what it showed to the outside

vars == <<transactionId, options, eventHub, registration, registered, pc, run,
          delivered, table, last>>

\* ------------------------------------------------------------ data shapes
NoReg == [lis |-> NoListener, unregister |-> FALSE, disconnect |-> "unset"]
NoBlk == [kind |-> "none", val |-> 0, digits |-> <<>>]
NoCb == [called |-> FALSE, err |-> "undefined", txid |-> "undefined",
         status |-> "undefined", blockNumber |-> -1]
NoEv == [txid |-> "undefined", status |-> "undefined", blk |-> NoBlk,
         error |-> "undefined"]
NoRun == [fb |-> 0, mgr |-> <<>>]
Step(op, l) == [op |-> op, lis |-> l, ev |-> NoEv, cb |-> NoCb, threw |-> FALSE,
                escaped |-> FALSE, mgr |-> <<>>, hubcalls |-> <<>>,
                run |-> NoRun, result |-> "none", incycle |-> FALSE,
                again |-> FALSE, live |-> FALSE]

\* What a hub hands to the event handler, and whether the caller's callback
\* throws on it: status and block number, the block number as a number or as a
\* string of decimal digits.
Deliveries ==
    {[status |-> "INVALID", cbThrows |-> FALSE,
      blk |-> [kind |-> "num", val |-> MaxBlock, digits |-> <<>>]],
     [status |-> "VALID", cbThrows |-> TRUE,
      blk |-> [kind |-> "str", val |-> 0, digits |-> <<1, MaxBlock>>]]}
Errors == {"E1"}

RECURSIVE ParseDecimal(_)
ParseDecimal(ds) ==
    IF ds = <<>> THEN 0
    ELSE 10 * ParseDecimal(SubSeq(ds, 1, Len(ds) - 1)) + ds[Len(ds)]

ToNumber_raw(b) == b.val

\* Number(blockNumber), line 68
ToNumber(b) == IF b.kind = "num" THEN b.val ELSE ParseDecimal(b.digits)

\* ------------------------------------------------- event hub (ChannelEventHub)
\* hub._transactionRegistrations[txid] is set
Watching(h, t) == table[h][t].lis # NoListener

\* registerTxEvent refuses a transaction id the hub already watches
registerTxEventFails(h, t) == Watching(h, t)

\* the registration record registerTxEvent stores for (txid, callbacks, options)
EventRegistration(l, opts) ==
    [lis |-> l, unregister |-> opts.unregister, disconnect |-> opts.disconnect]

\* connect(): the connection is opened or confirmed, or the call throws
ConnectOutcomes == {"returns", "throws"}

\* hub._transactionRegistrations after unregisterTxEvent(txid)
unregisterTxEvent(tbl, h, t) == [tbl EXCEPT ![h][t] = NoReg]

\* ------------------------------------------------- EventHubManager
\* a hub no listener holds and that watches nothing
IsNewEventHub(h) ==
    /\ \A t \in TxIds : ~Watching(h, t)
    /\ \A l \in Listeners : eventHub[l] # h

\* the hub a new connection to the peer gets: the next unused one
NewEventHub(peer) ==
    {h \in Hubs : /\ peerOf(h) = peer /\ IsNewEventHub(h)
                  /\ \A g \in Hubs : peerOf(g) = peer /\ IsNewEventHub(g) => h <= g}

\* getReplayEventHub(): a freshly acquired replay-capable hub, on any peer
getReplayEventHub == UNION {NewEventHub(peerOf(h)) : h \in Hubs}

\* getFixedEventHub(peer): a dedicated, non-shared hub on that peer
getFixedEventHub(peer) == NewEventHub(peer)

\* getEventHub(peer, forceNew): the manager mints a new hub on that peer or
\* supplies another shared one
getEventHub(peer, forceNew) ==
    NewEventHub(peer) \cup {h \in Hubs : peerOf(h) = peer /\ ~IsNewEventHub(h)}

\* ------------------------------------------------- CommitEventListener
\* AbstractEventListener.isregistered()
isregistered(l) == registered[l]

isAlreadyRegistered_skipped(l, h) == FALSE
isAlreadyRegistered_anyTx(l, h) == \E t \in TxIds : Watching(h, t)

\* _isAlreadyRegistered(eventHub), lines 103-112
isAlreadyRegistered(l, h) == Watching(h, transactionId[l])

MergedOptions_forcedWins(l) ==
    [unregister |-> TRUE, disconnect |-> options[l].disconnect]

\* Object.assign({unregister: true}, this.options), line 52
MergedOptions(l) ==
    [unregister |-> IF options[l].unregister = "unset" THEN TRUE
                    ELSE options[l].unregister = "true",
     disconnect |-> options[l].disconnect]

SubstituteHub_keepsOriginal(l) == {[hub |-> eventHub[l], mgr |-> <<>>]}

\* register(), lines 40-47: the hubs the watch may go to, with the manager
\* call that produced each (none when the bound hub is kept)
SubstituteHub(l) ==
    LET h0 == eventHub[l] IN
    IF isAlreadyRegistered(l, h0)
    THEN IF ~options[l].fixedEventHub
         THEN {[hub |-> h, mgr |-> <<[m |-> "getEventHub", hub |-> h]>>] :
                  h \in getEventHub(peerOf(h0), TRUE)}
         ELSE {[hub |-> h, mgr |-> <<[m |-> "getFixedEventHub", hub |-> h]>>] :
                  h \in getFixedEventHub(peerOf(h0))}
    ELSE {[hub |-> h0, mgr |-> <<>>]}

AcquireHub_none(l) == {[hub |-> NoHub, mgr |-> <<>>]}
AcquireHub_shared(l) ==
    {[hub |-> h, mgr |-> <<[m |-> "getEventHub", hub |-> h]>>] : h \in Hubs}

\* _registerWithNewEventHub, lines 93-97: the hub acquired, with the manager call
AcquireHub(l) ==
    IF ~options[l].fixedEventHub
    THEN {[hub |-> h, mgr |-> <<[m |-> "getReplayEventHub", hub |-> h]>>] :
             h \in getReplayEventHub}
    ELSE {[hub |-> h, mgr |-> <<[m |-> "getFixedEventHub", hub |-> h]>>] :
             h \in getFixedEventHub(peerOf(eventHub[l]))}

TableAfterUnregister_ifRegistered(l) ==
    IF eventHub[l] # NoHub /\ registered[l]
    THEN unregisterTxEvent(table, eventHub[l], transactionId[l])
    ELSE table

\* unregister(), lines 61-63: the hub tables afterwards
TableAfterUnregister(l) ==
    IF eventHub[l] # NoHub
    THEN unregisterTxEvent(table, eventHub[l], transactionId[l])
    ELSE table

\* unregister(), lines 61-63: the hub calls it makes
UnregisterCalls(l) ==
    IF eventHub[l] # NoHub
    THEN <<[m |-> "unregisterTxEvent", hub |-> eventHub[l], txid |-> transactionId[l]]>>
    ELSE <<>>

AutoUnregister_never(l) == FALSE
AutoUnregister_always(l) == TRUE

\* _onEvent, line 75: this._registration.unregister
AutoUnregister(l) == registration[l].unregister

onEventEscapes_uncaught(cbThrows) == cbThrows

\* _onEvent, lines 70-74: the callback's exception is caught
onEventEscapes(cbThrows) == FALSE

\* _onEvent, line 71: the arguments handed to the caller callback
EventCallbackArgs(txid, status, blk) ==
    [called |-> TRUE, err |-> "null", txid |-> txid, status |-> status,
     blockNumber |-> ToNumber(blk)]

\* _onError, line 82: the arguments handed to the caller callback
ErrorCallbackArgs(error) == [NoCb EXCEPT !.called = TRUE, !.err = error]

onErrorEscapes_caught(cbThrows) == FALSE

\* _onError, line 82: the callback's exception is not caught
onErrorEscapes(cbThrows) == cbThrows

RegisterCalls_connectFirst(h, t) ==
    <<[m |-> "connect", hub |-> h, txid |-> t],
      [m |-> "registerTxEvent", hub |-> h, txid |-> t]>>

\* register(), lines 48-55: the hub calls of the main path, in order
RegisterCalls(h, t) ==
    <<[m |-> "registerTxEvent", hub |-> h, txid |-> t],
      [m |-> "connect", hub |-> h, txid |-> t]>>

OptionsAfterAcquire_kept(l) == options

\* _registerWithNewEventHub, line 99: this.options.disconnect = true
OptionsAfterAcquire(l) == [options EXCEPT ![l].disconnect = "true"]

FixedWithoutHub_inverted(l) == options[l].fixedEventHub /\ eventHub[l] # NoHub

\* _registerWithNewEventHub, line 90
FixedWithoutHub(l) == options[l].fixedEventHub /\ eventHub[l] = NoHub

\* ------------------------------------------------------------------ Init
\* The options a caller constructs a listener with: the hub-selection options
\* with disconnect left out, or unregister and disconnect given explicitly.
OptionChoices ==
    {[fixedEventHub |-> f, unregister |-> u, disconnect |-> "unset"] :
        f \in BOOLEAN, u \in {"unset", "false"}} \cup
    {[fixedEventHub |-> FALSE, unregister |-> "true", disconnect |-> "false"]}
OptionRank(o) ==
    (IF o.unregister = "unset" THEN 0 ELSE IF o.unregister = "true" THEN 1 ELSE 2)
    + (IF o.disconnect = "false" THEN 3 ELSE 0)

\* Listeners as constructed by one owner: each with no hub or with the owner's
\* shared hub bound, all with the same fixedEventHub setting. The listeners are
\* interchangeable, so of two mirrored set-ups one is taken.
SharedHub == 1
SetUpRank(o, e, l) == 6 * e[l] + OptionRank(o[l])
Init ==
    /\ transactionId \in {f \in [Listeners -> TxIds] : f["L1"] = "tx1"}
    /\ options \in {o \in [Listeners -> OptionChoices] :
                       o["L1"].fixedEventHub = o["L2"].fixedEventHub}
    /\ eventHub \in [Listeners -> {NoHub, SharedHub}]
    /\ SetUpRank(options, eventHub, "L1") <= SetUpRank(options, eventHub, "L2")
    /\ registration = [l \in Listeners |-> NoReg]
    /\ registered = [l \in Listeners |-> FALSE]
    /\ pc = [l \in Listeners |-> "idle"]
    /\ run = [l \in Listeners |-> NoRun]
    /\ delivered = [l \in Listeners |-> FALSE]
    /\ table = [h \in Hubs |-> [t \in TxIds |-> NoReg]]
    /\ last = Step("init", NoListener)

\* --------------------------------------------------------------- actions
\* register(), lines 34-35: the call runs super.register() and suspends on it
registerCall(l) ==
    /\ pc[l] = "idle"
    /\ pc' = [pc EXCEPT ![l] = "super"]
    /\ run' = [run EXCEPT ![l] = NoRun]
    /\ last' = Step("registerCall", l)
    /\ UNCHANGED <<transactionId, options, eventHub, registration, registered,
                   delivered, table>>

\* register() resumes with no hub bound: _registerWithNewEventHub, lines 86-100
registerWithNewEventHub(l) ==
    /\ pc[l] = "super"
    /\ eventHub[l] = NoHub
    /\ LET wasRegistered == isregistered(l)
           calls == IF wasRegistered THEN UnregisterCalls(l) ELSE <<>>
           tbl == IF wasRegistered THEN TableAfterUnregister(l) ELSE table
       IN
       IF FixedWithoutHub(l)
       THEN \* line 91: throw
            /\ registered' = [registered EXCEPT ![l] = FALSE]
            /\ table' = tbl
            /\ pc' = [pc EXCEPT ![l] = "idle"]
            /\ run' = [run EXCEPT ![l] = NoRun]
            /\ last' = [Step("registerWithNewEventHub", l) EXCEPT
                          !.hubcalls = calls, !.escaped = TRUE,
                          !.run = [run[l] EXCEPT !.fb = @ + 1],
                          !.result = "configError"]
            /\ UNCHANGED <<eventHub, options>>
       ELSE \E s \in AcquireHub(l) :
            /\ registered' = [registered EXCEPT ![l] = FALSE]
            /\ table' = tbl
            /\ eventHub' = [eventHub EXCEPT ![l] = s.hub]
            /\ options' = OptionsAfterAcquire(l)
            /\ pc' = [pc EXCEPT ![l] = "super"]
            /\ run' = [run EXCEPT ![l].fb = @ + 1, ![l].mgr = @ \o s.mgr]
            /\ last' = [Step("registerWithNewEventHub", l) EXCEPT
                          !.hubcalls = calls, !.mgr = s.mgr,
                          !.run = [fb |-> run[l].fb + 1, mgr |-> run[l].mgr \o s.mgr],
                          !.result = "running"]
    /\ delivered' = [delivered EXCEPT ![l] = IF isregistered(l) THEN FALSE ELSE @]
    /\ UNCHANGED <<transactionId, registration>>

\* register() resumes with a hub bound: lines 40-56
registerMain(l) ==
    /\ pc[l] = "super"
    /\ eventHub[l] # NoHub
    /\ \E s \in SubstituteHub(l) :
        LET h == s.hub
            t == transactionId[l]
            reg == EventRegistration(l, MergedOptions(l))
            calls == RegisterCalls(h, t)
            step == [Step("registerMain", l) EXCEPT !.mgr = s.mgr,
                       !.run = [run[l] EXCEPT !.mgr = @ \o s.mgr]]
        IN
        /\ eventHub' = [eventHub EXCEPT ![l] = h]
        /\ pc' = [pc EXCEPT ![l] = "idle"]
        /\ run' = [run EXCEPT ![l] = NoRun]
        /\ IF registerTxEventFails(h, t)
           THEN \* line 48 throws
                /\ last' = [step EXCEPT !.hubcalls = <<calls[1]>>, !.escaped = TRUE,
                              !.result = "registerError"]
                /\ UNCHANGED <<table, registration, registered, delivered>>
           ELSE /\ table' = [table EXCEPT ![h][t] = reg]
                /\ registration' = [registration EXCEPT ![l] = reg]
                /\ \E c \in ConnectOutcomes :
                      IF c = "returns"
                      THEN \* line 56
                           /\ registered' = [registered EXCEPT ![l] = TRUE]
                           /\ delivered' = [delivered EXCEPT ![l] = FALSE]
                           /\ last' = [step EXCEPT !.hubcalls = calls,
                                         !.result = "ok"]
                      ELSE \* line 55 throws
                           /\ last' = [step EXCEPT !.hubcalls = calls,
                                         !.escaped = TRUE,
                                         !.result = "connectError"]
                           /\ UNCHANGED <<registered, delivered>>
    /\ UNCHANGED <<transactionId, options>>

\* unregister(), lines 59-64, called by the owner of the listener
unregister(l) ==
    /\ registered' = [registered EXCEPT ![l] = FALSE]
    /\ table' = TableAfterUnregister(l)
    /\ delivered' = [delivered EXCEPT ![l] = FALSE]
    /\ last' = [Step("unregister", l) EXCEPT !.hubcalls = UnregisterCalls(l)]
    /\ UNCHANGED <<transactionId, options, eventHub, registration, pc, run>>

\* _onEvent(txid, status, blockNumber), lines 66-78: a hub on which the listener
\* installed a watch delivers the commit of the watched transaction; the hub may
\* have dispatched the event before the watch was removed (an event in flight)
onEvent(l) ==
    \E d \in Deliveries :
        /\ registration[l].lis = l
        /\ LET step == [Step("onEvent", l) EXCEPT
                          !.ev = [NoEv EXCEPT !.txid = transactionId[l], !.status = d.status,
                                              !.blk = d.blk],
                          !.cb = EventCallbackArgs(transactionId[l], d.status, d.blk),
                          !.threw = d.cbThrows,
                          !.escaped = onEventEscapes(d.cbThrows),
                          !.incycle = registered[l],
                          !.again = registered[l] /\ delivered[l],
                          !.live = \E h \in Hubs :
                                      table[h][transactionId[l]].lis = l]
           IN
           IF AutoUnregister(l)
           THEN /\ registered' = [registered EXCEPT ![l] = FALSE]
                /\ delivered' = [delivered EXCEPT ![l] = FALSE]
                /\ table' = TableAfterUnregister(l)
                /\ last' = [step EXCEPT !.hubcalls = UnregisterCalls(l)]
           ELSE /\ delivered' = [delivered EXCEPT ![l] = @ \/ registered[l]]
                /\ last' = step
                /\ UNCHANGED <<registered, table>>
        /\ UNCHANGED <<transactionId, options, eventHub, registration, pc, run>>

onError_unregistering(l) ==
    \E error \in Errors, cbThrows \in BOOLEAN :
        /\ \E h \in Hubs : table[h][transactionId[l]].lis = l
        /\ registered' = [registered EXCEPT ![l] = FALSE]
        /\ delivered' = [delivered EXCEPT ![l] = FALSE]
        /\ table' = TableAfterUnregister(l)
        /\ last' = [Step("onError", l) EXCEPT
                      !.ev = [NoEv EXCEPT !.error = error],
                      !.cb = ErrorCallbackArgs(error),
                      !.threw = cbThrows,
                      !.escaped = onErrorEscapes(cbThrows),
                      !.hubcalls = UnregisterCalls(l)]
        /\ UNCHANGED <<transactionId, options, eventHub, registration, pc, run>>

\* _onError(error), lines 80-83: a hub invokes the watch's error handler
onError(l) ==
    \E error \in Errors, cbThrows \in BOOLEAN :
        /\ \E h \in Hubs : table[h][transactionId[l]].lis = l
        /\ last' = [Step("onError", l) EXCEPT
                      !.ev = [NoEv EXCEPT !.error = error],
                      !.cb = ErrorCallbackArgs(error),
                      !.threw = cbThrows,
                      !.escaped = onErrorEscapes(cbThrows)]
        /\ UNCHANGED <<transactionId, options, eventHub, registration, registered,
                       pc, run, delivered, table>>

Next ==
    \/ \E l \in Listeners : registerCall(l)
    \/ \E l \in Listeners : registerWithNewEventHub(l)
    \/ \E l \in Listeners : registerMain(l)
    \/ \E l \in Listeners : unregister(l)
    \/ \E l \in Listeners : onEvent(l)
    \/ \E l \in Listeners : onError(l)

Spec == Init /\ [][Next]_vars


\* ------------------------------------------------------------------ claims
Bound(l) == eventHub[l] # NoHub
WatchOnBound(l) == Bound(l) /\ Watching(eventHub[l], transactionId[l])
OwnWatchOnBound(l) == Bound(l) /\ table[eventHub[l]][transactionId[l]].lis = l

\* C1: no hub ever receives registerTxEvent for a transaction id its registration
\* table already holds: the hub register() installs the watch on (the bound hub,
\* or the manager's substitute) did not watch the transaction id before.
C1_NoSecondRegisterOnSameHub ==
    [][\A l \in Listeners :
          last'.op = "registerMain" /\ last'.lis = l
          => ~Watching(eventHub'[l], transactionId[l])]_vars

C3_FixedWithoutHubFails ==
    \A l \in Listeners :
        last.op = "registerWithNewEventHub" /\ last.lis = l /\ options[l].fixedEventHub
        => /\ last.result = "configError" /\ last.escaped
           /\ last.mgr = <<>> /\ last.run.mgr = <<>>
           /\ last.hubcalls = <<>>
           /\ ~last.cb.called
           /\ eventHub[l] = NoHub
           /\ ~registered[l]
           /\ pc[l] = "idle"

C3_Witness ==
    /\ last.op = "registerWithNewEventHub" /\ last.result = "configError"
    /\ options[last.lis].fixedEventHub /\ eventHub[last.lis] = NoHub

\* C4 (as claimed): in one registration cycle the success callback is never invoked
\* a second time, whatever the caller's options.
C4_NeverTwiceInCycle == ~(last.op = "onEvent" /\ last.again /\ last.live)

\* C4 (amended): when the captured registration's unregister flag is true, the
\* success callback is invoked at most once in a registration cycle.
C4_OncePerCycleWhenAutoUnregister ==
    \A l \in Listeners :
        last.op = "onEvent" /\ last.lis = l /\ registration[l].unregister
        => ~last.again

C4_Witness ==
    /\ last.op = "onEvent" /\ last.incycle /\ ~last.again /\ last.cb.called
    /\ registration[last.lis].unregister /\ ~registered[last.lis]

\* C5: when the caller's callback throws during a success event, no exception
\* escapes the event handler, and with the captured unregister flag true the
\* listener is unregistered and its transaction id is removed from the bound hub.
C5_CallbackThrowIsolated ==
    \A l \in Listeners :
        last.op = "onEvent" /\ last.lis = l /\ last.threw
        => /\ ~last.escaped
           /\ registration[l].unregister
              => /\ ~registered[l]
                 /\ ~WatchOnBound(l)
                 /\ last.hubcalls = <<[m |-> "unregisterTxEvent", hub |-> eventHub[l],
                                       txid |-> transactionId[l]]>>

C5_Witness ==
    /\ last.op = "onEvent" /\ last.threw /\ last.incycle
    /\ registration[last.lis].unregister /\ ~registered[last.lis]

\* C6: the error handler invokes the callback with the error as its only argument
\* and leaves registered, eventHub and the hubs' registration tables unchanged.
C6_ErrorLeavesRegistration ==
    [][last'.op = "onError"
       => /\ last'.cb = [called |-> TRUE, err |-> last'.ev.error, txid |-> "undefined",
                         status |-> "undefined", blockNumber |-> -1]
          /\ last'.ev.error \in Errors
          /\ last'.hubcalls = <<>>
          /\ UNCHANGED <<registered, eventHub, table, registration>>]_vars

C6_Witness ==
    /\ last.op = "onError" /\ last.cb.called
    /\ registered[last.lis] /\ OwnWatchOnBound(last.lis)

\* C7: the success event handler unregisters the listener and removes its
\* transaction id from the bound hub exactly when the unregister flag captured at
\* register() is true, which it is when the caller left unregister out; with the
\* flag false it leaves registered and the tables as they were.
C7_UnregisterFollowsCapturedFlag ==
    [][\A l \in Listeners :
          last'.op = "onEvent" /\ last'.lis = l
          => /\ registration[l].unregister
                => ~registered'[l] /\ Bound(l)
                   /\ ~Watching(eventHub[l], transactionId[l])'
             /\ ~registration[l].unregister
                => UNCHANGED <<registered, table>> /\ last'.hubcalls = <<>>
             /\ options[l].unregister = "unset" => registration[l].unregister
             /\ options[l].unregister = "false" => ~registration[l].unregister
             /\ UNCHANGED <<eventHub, registration>>]_vars

C7_Witness ==
    /\ last.op = "onEvent" /\ last.incycle /\ options[last.lis].unregister = "unset"
    /\ ~registered[last.lis] /\ ~WatchOnBound(last.lis) /\ last.hubcalls # <<>>

\* C8: the success callback receives (null, txid, status, block number) with the
\* hub's txid and status unchanged and the block number as the number the hub's
\* representation (number or decimal string) denotes; the error callback receives
\* the error alone.
DenotedNumber(b) ==
    IF b.kind = "num" THEN b.val
    ELSE IF Len(b.digits) = 1 THEN b.digits[1]
    ELSE 10 * b.digits[1] + b.digits[2]

C8_CallbackArguments ==
    /\ last.op = "onEvent"
       => last.cb = [called |-> TRUE, err |-> "null", txid |-> last.ev.txid,
                     status |-> last.ev.status,
                     blockNumber |-> DenotedNumber(last.ev.blk)]
    /\ last.op = "onError"
       => last.cb = [called |-> TRUE, err |-> last.ev.error, txid |-> "undefined",
                     status |-> "undefined", blockNumber |-> -1]

C8_Witness ==
    /\ last.op = "onEvent" /\ last.ev.blk.kind = "str" /\ Len(last.ev.blk.digits) = 2
    /\ last.cb.blockNumber = 10 + MaxBlock /\ last.cb.status = "VALID"

\* C9: when register() reaches its conflict check with a bound hub that holds no
\* entry for this listener's transaction id, it calls no manager method, keeps
\* eventHub, installs the watch on that hub and leaves every other entry of every
\* table untouched.
C9_NoConflictKeepsHub ==
    [][\A l \in Listeners :
          /\ last'.op = "registerMain" /\ last'.lis = l
          /\ ~Watching(eventHub[l], transactionId[l])
          => /\ last'.mgr = <<>>
             /\ eventHub' = eventHub
             /\ table'[eventHub[l]][transactionId[l]].lis = l
             /\ last'.hubcalls[1] = [m |-> "registerTxEvent", hub |-> eventHub[l],
                                     txid |-> transactionId[l]]
             /\ \A h \in Hubs, t \in TxIds :
                   <<h, t>> # <<eventHub[l], transactionId[l]>>
                   => table'[h][t] = table[h][t]]_vars

C9_Witness ==
    /\ last.op = "registerMain" /\ last.mgr = <<>> /\ last.result = "ok"
    /\ \E t \in TxIds, k \in Listeners :
          /\ t # transactionId[last.lis] /\ k # last.lis
          /\ eventHub[k] = eventHub[last.lis]
          /\ table[eventHub[last.lis]][t].lis = k
    /\ OwnWatchOnBound(last.lis)

\* C10: unregister() removes the watch for the listener's transaction id from the
\* bound hub whenever a hub is bound, makes no hub call when none is bound, raises
\* no error (also on a listener that never registered) and keeps eventHub.
C10_UnregisterEffect ==
    [][\A l \in Listeners :
          last'.op = "unregister" /\ last'.lis = l
          => /\ ~last'.escaped
             /\ eventHub' = eventHub
             /\ ~registered'[l]
             /\ IF Bound(l)
                THEN /\ ~Watching(eventHub[l], transactionId[l])'
                     /\ last'.hubcalls =
                          <<[m |-> "unregisterTxEvent", hub |-> eventHub[l],
                             txid |-> transactionId[l]]>>
                ELSE /\ last'.hubcalls = <<>>
                     /\ table' = table]_vars

C10_Witness ==
    /\ last.op = "unregister" /\ registration[last.lis] = NoReg
    /\ Bound(last.lis) /\ last.hubcalls # <<>>
    /\ \E k \in Listeners : k # last.lis /\ registration[k] # NoReg

\* C11: whatever the interleaving of register() calls at their awaits, the
\* conflict check and the installation of the watch happen in one step: a
\* register() that found no conflict installs on a hub that still holds no watch
\* for the transaction id, an installation never lands on an entry that holds a
\* watch, and it never touches an entry another listener installed.
C11_CheckAndInstallAtomic ==
    [][\A l \in Listeners :
          last'.op = "registerMain" /\ last'.lis = l
          => LET h == eventHub'[l]
                 t == transactionId[l]
             IN
             /\ last'.mgr = <<>> => h = eventHub[l] /\ ~Watching(h, t)
             /\ last'.result \in {"ok", "connectError"}
                => table[h][t] = NoReg /\ table'[h][t].lis = l
             /\ \A g \in Hubs, u \in TxIds :
                   table[g][u].lis \notin {l, NoListener}
                   => table'[g][u] = table[g][u]]_vars

C11_Witness ==
    /\ last.op = "registerMain" /\ last.result = "ok"
    /\ \E k \in Listeners :
          /\ k # last.lis
          /\ transactionId[k] = transactionId[last.lis]
          /\ eventHub[k] = eventHub[last.lis]
          /\ pc[k] = "super"
    /\ OwnWatchOnBound(last.lis)

\* C12: when register() finds the bound hub already watching the transaction id,
\* it asks getFixedEventHub(peer of the bound hub) if fixedEventHub is set and
\* getEventHub(peer of the bound hub, true) otherwise, binds the hub returned, and
\* the hub calls, the watch and the captured registration of that register() are
\* all on the returned hub; the original hub's table is left as it was.
C12_SubstituteIsTarget ==
    [][\A l \in Listeners :
          /\ last'.op = "registerMain" /\ last'.lis = l
          /\ Watching(eventHub[l], transactionId[l])
          => LET h0 == eventHub[l]
                 h == eventHub'[l]
                 t == transactionId[l]
             IN
             /\ last'.mgr = <<[m |-> IF options[l].fixedEventHub
                                      THEN "getFixedEventHub" ELSE "getEventHub",
                               hub |-> h]>>
             /\ peerOf(h) = peerOf(h0)
             /\ \A i \in DOMAIN last'.hubcalls : last'.hubcalls[i].hub = h
             /\ table'[h0] = table[h0]
             /\ IF last'.result \in {"ok", "connectError"}
                THEN /\ h # h0
                     /\ table'[h][t].lis = l
                     /\ registration'[l] = table'[h][t]
                     /\ last'.hubcalls[2].m = "connect"
                ELSE /\ last'.result = "registerError"
                     /\ UNCHANGED <<table, registration>>]_vars

C12_Witness ==
    /\ last.op = "registerMain" /\ last.result = "ok"
    /\ Len(last.mgr) = 1 /\ last.mgr[1].m = "getFixedEventHub"
    /\ options[last.lis].fixedEventHub
    /\ OwnWatchOnBound(last.lis)
    /\ \E k \in Listeners : k # last.lis /\ eventHub[k] # eventHub[last.lis]
                            /\ OwnWatchOnBound(k)
                            /\ transactionId[k] = transactionId[last.lis]

\* C13: the options registerTxEvent receives have unregister true when the
\* listener's options leave unregister out and the listener's own value when they
\* set it (so an explicit false reaches the hub), and carry the other options as
\* the listener holds them.
C13_MergedOptions ==
    [][\A l \in Listeners :
          /\ last'.op = "registerMain" /\ last'.lis = l
          /\ last'.result \in {"ok", "connectError"}
          => LET r == table'[eventHub'[l]][transactionId[l]] IN
             /\ options[l].unregister = "unset" => r.unregister
             /\ options[l].unregister = "true" => r.unregister
             /\ options[l].unregister = "false" => ~r.unregister
             /\ r.disconnect = options[l].disconnect
             /\ r.lis = l]_vars

C13_Witness ==
    /\ last.op = "registerMain" /\ last.result = "ok"
    /\ options[last.lis].unregister = "false"
    /\ OwnWatchOnBound(last.lis)
    /\ ~table[eventHub[last.lis]][transactionId[last.lis]].unregister

\* C14: the hub-acquisition fallback sets options.disconnect to true when it
\* acquires a hub, before any watch is installed, so the registration made on that
\* path carries disconnect true; a register() that does not acquire a hub, and
\* every other step, leaves options as they were.
C14_DisconnectForced ==
    [][\A l \in Listeners :
          /\ last'.op = "registerWithNewEventHub" /\ last'.lis = l
             /\ last'.result = "running"
             => /\ options'[l] = [options[l] EXCEPT !.disconnect = "true"]
                /\ table' = table
          /\ last'.op = "registerMain" /\ last'.lis = l /\ run[l].fb > 0
             => /\ options[l].disconnect = "true"
                /\ last'.result \in {"ok", "connectError"}
                   => table'[eventHub'[l]][transactionId[l]].disconnect = "true"
          /\ ~(last'.op = "registerWithNewEventHub" /\ last'.lis = l
               /\ last'.result = "running")
             => options'[l] = options[l]]_vars

C14_Witness ==
    /\ last.op = "registerMain" /\ last.run.fb = 1 /\ last.result = "ok"
    /\ options[last.lis].unregister = "true"
    /\ options[last.lis].disconnect = "true"
    /\ registration[last.lis].disconnect = "true"

\* C15: a register() call that completes successfully makes exactly one
\* registerTxEvent call and then one connect call, both on the hub bound when it
\* returns, and registered becomes true only in the step that made both; the
\* steps before the main path make neither call.
C15_OneRegisterOneConnect ==
    [][\A l \in Listeners :
          /\ last'.op = "registerMain" /\ last'.lis = l /\ last'.result = "ok"
             => /\ last'.hubcalls =
                     <<[m |-> "registerTxEvent", hub |-> eventHub'[l],
                        txid |-> transactionId[l]],
                       [m |-> "connect", hub |-> eventHub'[l],
                        txid |-> transactionId[l]]>>
                /\ registered'[l]
                /\ pc'[l] = "idle"
          /\ last'.op \in {"registerCall", "registerWithNewEventHub"} /\ last'.lis = l
             => /\ \A i \in DOMAIN last'.hubcalls :
                      last'.hubcalls[i].m \notin {"registerTxEvent", "connect"}
                /\ ~registered'[l] \/ registered[l]
          /\ registered'[l] /\ ~registered[l]
             => last'.op = "registerMain" /\ last'.lis = l /\ last'.result = "ok"]_vars

C15_Witness ==
    /\ last.op = "registerMain" /\ last.result = "ok" /\ last.run.fb = 1
    /\ Len(last.hubcalls) = 2
    /\ last.hubcalls[2] = [m |-> "connect", hub |-> eventHub[last.lis],
                           txid |-> transactionId[last.lis]]

\* C16: a register() call enters the hub-acquisition fallback at most once: after
\* the fallback acquired a hub the resumed register() finds it bound and takes
\* the main path, which ends the call.
C16_FallbackAtMostOnce ==
    \A l \in Listeners :
        /\ run[l].fb <= 1
        /\ last.run.fb <= 1
        /\ pc[l] = "super" /\ run[l].fb = 1 => Bound(l)
        /\ pc[l] = "idle" => run[l] = NoRun
        /\ last.op = "registerMain" /\ last.lis = l => pc[l] = "idle"
        /\ last.op = "registerWithNewEventHub" /\ last.lis = l
           => (pc[l] = "idle") = (last.result = "configError")

C16_Witness ==
    /\ last.op = "registerMain" /\ last.run.fb = 1
    /\ pc[last.lis] = "idle" /\ run[last.lis] = NoRun

\* C17: in the hub-acquisition fallback a listener with fixedEventHub set obtains
\* its hub from getFixedEventHub(previously known peer), binds it, and the
\* registration goes on.
C17_FixedFallbackAcquires ==
    \A l \in Listeners :
        last.op = "registerWithNewEventHub" /\ last.lis = l
        /\ options[l].fixedEventHub
        => /\ last.result = "running"
           /\ last.mgr = <<[m |-> "getFixedEventHub", hub |-> eventHub[l]]>>
           /\ pc[l] = "super"

\* C18: unregister(), called by the owner or by the event handler, removes from
\* the hubs only a watch this listener installed: an entry installed by another
\* listener is left as it was.
C18_RemovesOnlyOwnWatch ==
    [][\A l \in Listeners :
          last'.op \in {"unregister", "onEvent"} /\ last'.lis = l
          => \A h \in Hubs, t \in TxIds :
                table[h][t].lis \notin {l, NoListener}
                => table'[h][t] = table[h][t]]_vars

\* C19: a register() call that ends with an error (the configuration error, a
\* failing registerTxEvent or a failing connect) does not set registered and
\* leaves no watch installed by that call on any hub.
C19_FailedRegisterLeavesNoWatch ==
    [][\A l \in Listeners :
          /\ last'.op \in {"registerMain", "registerWithNewEventHub"}
          /\ last'.lis = l /\ last'.escaped
          => /\ registered'[l] => registered[l]
             /\ \A h \in Hubs :
                   table'[h][transactionId[l]].lis = l
                   => table[h][transactionId[l]].lis = l]_vars

\* C20: when the caller's callback throws while the error handler delivers a hub
\* error, the exception leaves the handler towards the hub (on the success path
\* it does not), and registered, eventHub and the hubs' tables stay as they were.
C20_ErrorCallbackThrowPropagates ==
    [][/\ last'.op = "onError" /\ last'.threw
          => /\ last'.escaped
             /\ last'.cb.called /\ last'.cb.err \in Errors
             /\ UNCHANGED <<registered, eventHub, table>>
       /\ last'.op = "onError" /\ ~last'.threw => ~last'.escaped
       /\ last'.op = "onEvent" => ~last'.escaped]_vars

C20_Witness ==
    /\ last.op = "onError" /\ last.threw /\ last.escaped
    /\ registered[last.lis] /\ OwnWatchOnBound(last.lis)

====
